---- MODULE Spec2Model ----
(***************************************************************************)
(* Karplus-Strong pluck synthesis (doc/ks.py): generate and generate_chord. *)
(*                                                                         *)
(* Sample values are modelled exactly.  Every value the program computes   *)
(* from an excitation drawn out of Excitation is a rational whose         *)
(* denominator is a power of 2000 (damping * 0.5 = 999/2000), so a value   *)
(* is kept as a sign, a magnitude written in base 2000 (least significant  *)
(* limb first) and the number e of limbs after the radix point.            *)
(***************************************************************************)
EXTENDS Integers, Sequences, FiniteSets, TLC

sample_rate == 44100

Base == 2000

(***************************************************************************)
(* Magnitudes: sequences of limbs in 0..Base-1, least significant first,   *)
(* without most significant zero limbs (<<>> is 0).                        *)
(***************************************************************************)
Tail0(s) == IF s = <<>> THEN <<>> ELSE Tail(s)

Head0(s) == IF s = <<>> THEN 0 ELSE Head(s)

RECURSIVE MagTrim(_)
MagTrim(m) ==
    IF m = <<>> THEN <<>>
    ELSE IF m[Len(m)] = 0 THEN MagTrim(SubSeq(m, 1, Len(m) - 1))
    ELSE m

RECURSIVE MagAddC(_, _, _)
MagAddC(a, b, c) ==
    IF a = <<>> /\ b = <<>> THEN (IF c = 0 THEN <<>> ELSE <<c>>)
    ELSE LET t == Head0(a) + Head0(b) + c
         IN  <<t % Base>> \o MagAddC(Tail0(a), Tail0(b), t \div Base)

MagAdd(a, b) == MagAddC(a, b, 0)

\* a - b for a >= b
RECURSIVE MagSubB(_, _, _)
MagSubB(a, b, w) ==
    IF a = <<>> THEN <<>>
    ELSE LET t == Head(a) - Head0(b) - w
         IN  IF t < 0 THEN <<t + Base>> \o MagSubB(Tail(a), Tail0(b), 1)
             ELSE <<t>> \o MagSubB(Tail(a), Tail0(b), 0)

MagSub(a, b) == MagTrim(MagSubB(a, b, 0))

\* -1, 0, 1 as a < b, a = b, a > b (both trimmed)
RECURSIVE MagCmp(_, _)
MagCmp(a, b) ==
    IF Len(a) < Len(b) THEN -1
    ELSE IF Len(a) > Len(b) THEN 1
    ELSE IF a = <<>> THEN 0
    ELSE IF a[Len(a)] < b[Len(b)] THEN -1
    ELSE IF a[Len(a)] > b[Len(b)] THEN 1
    ELSE MagCmp(SubSeq(a, 1, Len(a) - 1), SubSeq(b, 1, Len(b) - 1))

RECURSIVE MagMulSmall(_, _, _)
MagMulSmall(a, k, c) ==
    IF a = <<>> THEN (IF c = 0 THEN <<>> ELSE <<c>>)
    ELSE LET t == Head(a) * k + c
         IN  <<t % Base>> \o MagMulSmall(Tail(a), k, t \div Base)

RECURSIVE MagMulR(_, _)
MagMulR(a, b) ==
    IF a = <<>> THEN <<>>
    ELSE MagAdd(MagMulSmall(b, Head(a), 0), <<0>> \o MagMulR(Tail(a), b))

MagMul(a, b) == MagTrim(MagMulR(a, b))

\* m * Base^k
RECURSIVE MagShift(_, _)
MagShift(m, k) == IF k = 0 \/ m = <<>> THEN m ELSE MagShift(<<0>> \o m, k - 1)

(***************************************************************************)
(* Sample values: [neg, mag, e] stands for (-1)^neg * mag / Base^e, in normal     *)
(* form (no low zero limb while e > 0; zero is [FALSE, <<>>, 0]).          *)
(***************************************************************************)
RECURSIVE Norm(_, _, _)
Norm(neg, m, e) ==
    IF MagTrim(m) = <<>> THEN [neg |-> FALSE, mag |-> <<>>, e |-> 0]
    ELSE IF e > 0 /\ Head(m) = 0 THEN Norm(neg, Tail(m), e - 1)
    ELSE [neg |-> neg, mag |-> MagTrim(m), e |-> e]

Neg(x) == Norm(~x.neg, x.mag, x.e)

Abs(x) == [x EXCEPT !.neg = FALSE]

Add(x, y) ==
    LET E  == IF x.e > y.e THEN x.e ELSE y.e
        ax == MagShift(x.mag, E - x.e)
        ay == MagShift(y.mag, E - y.e)
    IN  IF x.neg = y.neg THEN Norm(x.neg, MagAdd(ax, ay), E)
        ELSE IF MagCmp(ax, ay) >= 0 THEN Norm(x.neg, MagSub(ax, ay), E)
        ELSE Norm(y.neg, MagSub(ay, ax), E)

Mul(x, y) == Norm(x.neg # y.neg, MagMul(x.mag, y.mag), x.e + y.e)

Leq(x, y) == LET d == Add(x, Neg(y)) IN d.neg \/ d.mag = <<>>

Zero == [neg |-> FALSE, mag |-> <<>>, e |-> 0]

One == [neg |-> FALSE, mag |-> <<1>>, e |-> 0]

Half == [neg |-> FALSE, mag |-> <<1000>>, e |-> 1]

ThreeHalves == [neg |-> FALSE, mag |-> <<1000, 1>>, e |-> 1]

\* a gain above 1 in place of the loss factor
dampingGain == [neg |-> FALSE, mag |-> <<1000, 1>>, e |-> 1]

\* damping = 0.999
damping == [neg |-> FALSE, mag |-> <<1998>>, e |-> 1]

\* an entry of np.empty that no assignment has reached yet
Unset == [neg |-> FALSE, mag |-> <<>>, e |-> -1]

NoWaveform == <<Unset>>

(***************************************************************************)
(* Bounds and input sets                                                   *)
(***************************************************************************)
MaxSamples == 6

MaxChordSamples == 3

MaxNotes == 2

\* frequencies giving N < 0, the division fault, N = 3, 2, 1 and N = 0
Freqs == {-1, 0, 14700, 22050, 44100, 44101}

ChordFreqs == {0, 22050, 44100, 44101}

Vols == {Zero, Half, One, ThreeHalves}

\* values of np.random.rand(N) * 2 - 1, which lie in [-1, 1)
Excitation == {Neg(One), Neg(Half), Zero, Half}

Chords == UNION {[1..k -> ChordFreqs] : k \in 0..MaxNotes}

(***************************************************************************)
(* generate: the pieces of lines 19-28                                      *)
(***************************************************************************)
\* Python's a // b for a > 0 and b # 0 (floor division)
FloorDiv(a, b) == IF b > 0 THEN a \div b ELSE -((a + (-b) - 1) \div (-b))

DelayLen(ff) == FloorDiv(sample_rate, ff)

\* one entry too many
AllocLenPlusOne(n) == n + 1

AllocLen(n) == n

Empty(n) == [k \in 1..AllocLen(n) |-> Unset]

Zeros(n) == [k \in 1..n |-> Zero]

BufIndex(k, len) == k % len

\* the predecessor in place of the successor
PreviousIndex(k, len) == (k + len - 1) % len

NeighbourIndex(k, len) == (1 + k) % len

\* the sum damped but not halved
AverageUndivided(a, b) == Mul(damping, Add(a, b))

Average(a, b) == Mul(Mul(damping, Half), Add(a, b))

\* the iteration emitting the value it has just written back
LoopBodyEmitUpdated(st, k, len) ==
    LET cur == st.buf[BufIndex(k, len) + 1]
        nxt == st.buf[NeighbourIndex(k, len) + 1]
    IN  [buf     |-> [st.buf EXCEPT ![BufIndex(k, len) + 1] = Average(cur, nxt)],
         samples |-> [st.samples EXCEPT ![k + 1] = Average(cur, nxt)]]

\* one iteration of the loop, lines 24-26; Python index j is TLA+ index j + 1
LoopBody(st, k, len) ==
    LET cur == st.buf[BufIndex(k, len) + 1]
        nxt == st.buf[NeighbourIndex(k, len) + 1]
    IN  [buf     |-> [st.buf EXCEPT ![BufIndex(k, len) + 1] = Average(cur, nxt)],
         samples |-> [st.samples EXCEPT ![k + 1] = cur]]

\* the volume clamped into [0, 1] before scaling
ScaleClamped(s, v) ==
    LET w == IF Leq(v, Zero) THEN Zero ELSE IF Leq(One, v) THEN One ELSE v
    IN  [k \in 1..Len(s) |-> Mul(s[k], w)]

Scale(s, v) == [k \in 1..Len(s) |-> Mul(s[k], v)]

\* assignment in place of +=
AddIntoOverwrite(a, b) == b

AddInto(a, b) == [k \in 1..Len(a) |-> Add(a[k], b[k])]

RECURSIVE Run(_, _, _, _)
Run(st, k, n, len) == IF k >= n THEN st ELSE Run(LoopBody(st, k, len), k + 1, n, len)

\* generate(ff, v, n) for 1 <= ff <= sample_rate, n >= 0 and rand's output b0
Generate(ff, v, n, b0) ==
    Scale(Run([buf |-> b0, samples |-> Empty(n)], 0, n, DelayLen(ff)).samples, v)

(***************************************************************************)
(* State                                                                   *)
(***************************************************************************)
VARIABLES
    pc,            \* "idle", "enter", "gen", "chord_enter", "chord", "done"
    op,            \* the function the caller invoked
    nsamples,
    f, vol,        \* arguments of the running generate call
    N, buf, i, samples,
    buf0,          \* what np.random.rand(N) * 2 - 1 returned
    lastWrite,     \* per delay-line position: iteration of its last write, or -1
    chord_f, noteIdx, chord_samples,
    bufs0,         \* buf0 of each finished note of the chord
    result,        \* the returned array
    error          \* the exception that escaped, or "none"

genVars == <<f, vol, N, buf, i, samples, buf0, lastWrite>>

chordVars == <<chord_f, noteIdx, chord_samples, bufs0>>

vars == <<pc, op, nsamples, f, vol, N, buf, i, samples, buf0, lastWrite,
          chord_f, noteIdx, chord_samples, bufs0, result, error>>

Init ==
    /\ pc = "idle" /\ op = "none" /\ nsamples = 0
    /\ f = 0 /\ vol = Zero /\ N = 0 /\ buf = <<>> /\ i = 0 /\ samples = <<>>
    /\ buf0 = <<>> /\ lastWrite = <<>>
    /\ chord_f = <<>> /\ noteIdx = 0 /\ chord_samples = <<>> /\ bufs0 = <<>>
    /\ result = NoWaveform /\ error = "none"

\* an exception leaves every frame: nothing is returned
Raise(kind) ==
    /\ pc' = "done" /\ error' = kind /\ result' = NoWaveform
    /\ UNCHANGED <<op, nsamples, genVars, chordVars>>

CallGenerate(ff, v, n) ==
    /\ pc = "idle"
    /\ pc' = "enter" /\ op' = "generate" /\ f' = ff /\ vol' = v /\ nsamples' = n
    /\ UNCHANGED <<N, buf, i, samples, buf0, lastWrite, chordVars, result, error>>

\* lines 19-21
GenerateEnter ==
    /\ pc = "enter"
    /\ IF f = 0 THEN Raise("ZeroDivisionError")
       ELSE IF DelayLen(f) < 0 THEN Raise("ValueError")
       ELSE IF nsamples < 0 THEN Raise("ValueError")
       ELSE \E b0 \in [1..DelayLen(f) -> Excitation] :
              /\ pc' = "gen"
              /\ N' = DelayLen(f) /\ buf' = b0 /\ buf0' = b0
              /\ samples' = Empty(nsamples) /\ i' = 0
              /\ lastWrite' = [k \in 1..DelayLen(f) |-> -1]
              /\ UNCHANGED <<op, nsamples, f, vol, chordVars, result, error>>

\* lines 23-26, one iteration
LoopStep ==
    /\ pc = "gen" /\ i < nsamples
    /\ IF N = 0 THEN Raise("ZeroDivisionError")
       ELSE LET st == LoopBody([buf |-> buf, samples |-> samples], i, N)
            IN  /\ buf' = st.buf /\ samples' = st.samples
                /\ lastWrite' = [lastWrite EXCEPT ![BufIndex(i, N) + 1] = i]
                /\ i' = i + 1
                /\ UNCHANGED <<pc, op, nsamples, f, vol, N, buf0, chordVars, result, error>>

\* line 28, to the caller of generate
GenerateReturn ==
    /\ pc = "gen" /\ i >= nsamples
    /\ IF op = "generate"
       THEN /\ pc' = "done" /\ result' = Scale(samples, vol)
            /\ UNCHANGED <<op, nsamples, genVars, chordVars, error>>
       ELSE /\ pc' = "chord"
            /\ chord_samples' = AddInto(chord_samples, Scale(samples, vol))
            /\ noteIdx' = noteIdx + 1
            /\ bufs0' = Append(bufs0, buf0)
            /\ UNCHANGED <<op, nsamples, genVars, chord_f, result, error>>

CallChord(fs, n) ==
    /\ pc = "idle"
    /\ pc' = "chord_enter" /\ op' = "generate_chord" /\ chord_f' = fs /\ nsamples' = n
    /\ UNCHANGED <<genVars, noteIdx, chord_samples, bufs0, result, error>>

\* line 42
ChordEnter ==
    /\ pc = "chord_enter"
    /\ IF nsamples < 0 THEN Raise("ValueError")
       ELSE /\ pc' = "chord" /\ chord_samples' = Zeros(nsamples) /\ noteIdx' = 0
            /\ UNCHANGED <<op, nsamples, genVars, chord_f, bufs0, result, error>>

\* lines 44-45: the call generate(note, 0.5, nsamples)
ChordNote ==
    /\ pc = "chord" /\ noteIdx < Len(chord_f)
    /\ pc' = "enter" /\ f' = chord_f[noteIdx + 1] /\ vol' = Half
    /\ UNCHANGED <<op, nsamples, N, buf, i, samples, buf0, lastWrite, chordVars,
                   result, error>>

\* line 48
ChordReturn ==
    /\ pc = "chord" /\ noteIdx >= Len(chord_f)
    /\ pc' = "done" /\ result' = chord_samples
    /\ UNCHANGED <<op, nsamples, genVars, chordVars, error>>

Next ==
    \/ \E ff \in Freqs, v \in Vols, n \in -1..MaxSamples : CallGenerate(ff, v, n)
    \/ GenerateEnter
    \/ LoopStep
    \/ GenerateReturn
    \/ \E fs \in Chords, n \in -1..MaxChordSamples : CallChord(fs, n)
    \/ ChordEnter
    \/ ChordNote
    \/ ChordReturn

Spec == Init /\ [][Next]_vars

(***************************************************************************)
(* Vocabulary of the claims                                                *)
(***************************************************************************)
ValidFreq(ff) == 1 <= ff /\ ff <= sample_rate

InvalidFreq(ff) == ff <= 0 \/ ff > sample_rate

GenerateDone == pc = "done" /\ op = "generate"

ChordDone == pc = "done" /\ op = "generate_chord"

InUnit(x) == Leq(Neg(One), x) /\ Leq(x, One)

RECURSIVE Pow(_, _)
Pow(x, k) == IF k = 0 THEN One ELSE Mul(x, Pow(x, k - 1))

\* sum of squares of s[lo+1 .. hi] (Python s[lo:hi])
RECURSIVE Energy(_, _, _)
Energy(s, lo, hi) ==
    IF lo >= hi THEN Zero ELSE Add(Mul(s[lo + 1], s[lo + 1]), Energy(s, lo + 1, hi))

\* entry k of generate(fs[1], 0.5, n) + ... + generate(fs[m], 0.5, n), from 0
RECURSIVE SumAt(_, _, _, _, _)
SumAt(fs, bs, n, m, k) ==
    IF m = 0 THEN Zero
    ELSE Add(SumAt(fs, bs, n, m - 1, k), Generate(fs[m], Half, n, bs[m])[k])

\* C1: generate with f <= 0 or f > sample_rate and nsamples >= 0 ends in the
\* InvalidFrequency failure and returns no waveform.
C1_InvalidFrequencyRejected ==
    (GenerateDone /\ InvalidFreq(f) /\ nsamples >= 0)
        => (error = "InvalidFrequency" /\ result = NoWaveform)

\* C2: generate with a valid frequency and nsamples >= 0 returns, without
\* error, a waveform of exactly nsamples assigned entries.
C2_LengthIsNsamples ==
    (GenerateDone /\ ValidFreq(f) /\ nsamples >= 0)
        => /\ error = "none"
           /\ Len(result) = nsamples
           /\ \A k \in 1..Len(result) : result[k] # Unset

C2_Witness ==
    /\ GenerateDone /\ ValidFreq(f) /\ N = 2 /\ nsamples = 5
    /\ Len(result) = 5 /\ result[5] # Zero

\* C3: a call with negative nsamples ends in the InvalidDuration failure.
C3_InvalidDurationRejected ==
    (pc = "done" /\ nsamples < 0) => (error = "InvalidDuration" /\ result = NoWaveform)

\* C4: generate_chord with an invalid frequency anywhere in its list and
\* nsamples >= 0 returns no waveform and ends in the InvalidFrequency failure.
C4_ChordAbortsOnInvalidFrequency ==
    (ChordDone /\ nsamples >= 0 /\ \E k \in 1..Len(chord_f) : InvalidFreq(chord_f[k]))
        => (result = NoWaveform /\ error = "InvalidFrequency")

\* C5: for valid frequencies the chord is the elementwise sum, from zeros, of
\* the plucks generate(fj, 0.5, n) on the same excitations; one note gives
\* that pluck, no note gives n zeros.
C5_ChordIsSumOfPlucks ==
    (ChordDone /\ nsamples >= 0 /\ \A k \in 1..Len(chord_f) : ValidFreq(chord_f[k]))
        => /\ error = "none"
           /\ Len(result) = nsamples
           /\ \A k \in 1..nsamples :
                result[k] = SumAt(chord_f, bufs0, nsamples, Len(chord_f), k)
           /\ Len(chord_f) = 1 => result = Generate(chord_f[1], Half, nsamples, bufs0[1])
           /\ Len(chord_f) = 0 => result = Zeros(nsamples)

C5_Witness ==
    /\ ChordDone /\ error = "none" /\ Len(chord_f) = 2 /\ nsamples = 3
    /\ chord_f[1] # chord_f[2]
    /\ \A k \in 1..2 : ValidFreq(chord_f[k]) /\ bufs0[k][1] = Half
    /\ result[3] # Zero

\* C6: every returned sample is vol times the sample of generate(f, 1.0, n)
\* on the same excitation, for volumes inside and outside [0, 1].
C6_VolumeLinearity ==
    (GenerateDone /\ ValidFreq(f) /\ nsamples >= 0)
        => \A k \in 1..nsamples :
             result[k] = Mul(vol, Generate(f, One, nsamples, buf0)[k])

C6_Witness ==
    /\ GenerateDone /\ ValidFreq(f) /\ vol = ThreeHalves /\ nsamples > N
    /\ result[nsamples] # Zero

\* C7 as stated: with volume 1.0 the energy of every full period is at most
\* the energy of the full period before it.
C7_EnergyNonIncreasing ==
    (GenerateDone /\ ValidFreq(f) /\ vol = One /\ nsamples >= 0)
        => \A k \in 0..nsamples :
             (k + 2) * N <= nsamples
                 => Leq(Energy(result, (k + 1) * N, (k + 2) * N),
                        Energy(result, k * N, (k + 1) * N))

\* C7 amended: with volume 1.0, for N = 1 the energy of every full period is
\* at most that of the period before it, and for every N each sample of a
\* full period is at most, in absolute value, some sample of the period
\* before it (the peak does not grow).
C7_PeakNonIncreasing ==
    (GenerateDone /\ ValidFreq(f) /\ vol = One /\ nsamples >= 0)
        => \A k \in 0..nsamples :
             (k + 2) * N <= nsamples
                 => /\ N = 1 => Leq(Energy(result, (k + 1) * N, (k + 2) * N),
                                    Energy(result, k * N, (k + 1) * N))
                    /\ \A j \in ((k + 1) * N + 1)..((k + 2) * N) :
                         \E h \in (k * N + 1)..((k + 1) * N) :
                            Leq(Abs(result[j]), Abs(result[h]))

C7_Witness ==
    /\ GenerateDone /\ ValidFreq(f) /\ vol = One /\ N = 2 /\ nsamples = 4
    /\ ~Leq(Energy(result, 2, 4), Energy(result, 0, 2))
    /\ \A j \in 3..4 : \E h \in 1..2 : Leq(Abs(result[j]), Abs(result[h]))

\* C8 as stated: at every iteration i the position read as the neighbour has
\* not been written during the pass i div N.
C8_NeighbourSameGeneration ==
    (pc = "gen" /\ i < nsamples /\ N > 0)
        => lastWrite[NeighbourIndex(i, N) + 1] < (i \div N) * N

\* C8 amended: the neighbour position has not been written during the pass
\* i div N when N = 1 or i mod N < N - 1; at the last index of a pass with
\* N >= 2 the neighbour, position 0, was written at the first iteration of
\* that same pass.
C8_NeighbourGeneration ==
    (pc = "gen" /\ i < nsamples /\ N > 0)
        => IF N = 1 \/ i % N < N - 1
           THEN lastWrite[NeighbourIndex(i, N) + 1] < (i \div N) * N
           ELSE lastWrite[NeighbourIndex(i, N) + 1] = (i \div N) * N

C8_Witness ==
    /\ pc = "gen" /\ N = 3 /\ i = 4 /\ i < nsamples
    /\ lastWrite[NeighbourIndex(i, N) + 1] = 2
    /\ lastWrite[1] = 3

\* C9: every delay-line entry and every emitted sample stays in [-1, 1] in
\* every state of the loop, and so does every sample returned with volume 1.0.
C9_Bounded ==
    /\ pc = "gen" =>
          /\ \A j \in 1..N : InUnit(buf[j])
          /\ \A k \in 1..i : InUnit(samples[k])
    /\ (GenerateDone /\ error = "none" /\ vol = One) =>
          \A k \in 1..Len(result) : InUnit(result[k])

C9_Witness ==
    /\ GenerateDone /\ error = "none" /\ vol = One /\ N = 2 /\ nsamples = 6
    /\ buf0 = <<Neg(One), Neg(One)>>
    /\ result[6] # Zero /\ InUnit(result[6])

====
